---- MODULE Spec2Model ----
(***************************************************************************)
(* A model of log4j-finder.py: the directory walk (iter_scandir/scantree), *)
(* the archive walk (iter_jarfile), the classification (check_vulnerable,  *)
(* md5_digest) and the driver loop of main().                              *)
(*                                                                         *)
(* The filesystem is a tree value chosen in the initial state.  Every node *)
(* (a directory entry or an archive entry) is a record                     *)
(*    [kind, name, fault, exc, data, kids]                                 *)
(*  kind  : "dir", "file", "link" on disk; "entry" inside an archive       *)
(*  name  : the entry's base name, a sequence of characters                *)
(*  fault : the one operation on the node that raises ("none" if none)     *)
(*  exc   : the class of the exception raised: "IOError", "BadZipFile",  *)
(*          "RuntimeError" (an encrypted entry), "zlib.error" (a corrupt   *)
(*          deflate stream)                                                *)
(*  data  : the content (a content id) of a file; the target kind of a link*)
(*  kids  : a directory's listing, or an archive's entries, in order       *)
(***************************************************************************)
EXTENDS Integers, Sequences, FiniteSets, TLC

VARIABLES roots, rootIdx, pc, wpc, dstack, cand, yielded,
          jstack, cur, zf, heap, open, stats, out

vars == <<roots, rootIdx, pc, wpc, dstack, cand, yielded,
          jstack, cur, zf, heap, open, stats, out>>

----------------------------------------------------------------------------
(* Bounds of the model *)

\* nodes of one directory tree in the walk scenarios (the root included)
MaxNodes == 4
\* entries of one archive in the archive scenarios (nested entries included)
MaxEntries == 3
\* failures injected into one scenario
MaxFaults == 1
\* root paths on the command line
MaxRoots == 2

----------------------------------------------------------------------------
(* Names: str.lower, str.endswith, pathlib's suffix *)

\* str.lower() follows Unicode.  The names of the model are written in ASCII
\* and Latin-1: the lower-case letter of each upper-case letter of the two
LowerCase ==
  "A" :> "a" @@ "B" :> "b" @@ "C" :> "c" @@ "D" :> "d" @@ "E" :> "e" @@
  "F" :> "f" @@ "G" :> "g" @@ "H" :> "h" @@ "I" :> "i" @@ "J" :> "j" @@
  "K" :> "k" @@ "L" :> "l" @@ "M" :> "m" @@ "N" :> "n" @@ "O" :> "o" @@
  "P" :> "p" @@ "Q" :> "q" @@ "R" :> "r" @@ "S" :> "s" @@ "T" :> "t" @@
  "U" :> "u" @@ "V" :> "v" @@ "W" :> "w" @@ "X" :> "x" @@ "Y" :> "y" @@
  "Z" :> "z" @@ "À" :> "à" @@ "Á" :> "á" @@ "Â" :> "â" @@ "Ã" :> "ã" @@
  "Ä" :> "ä" @@ "Å" :> "å" @@ "Æ" :> "æ" @@ "Ç" :> "ç" @@ "È" :> "è" @@
  "É" :> "é" @@ "Ê" :> "ê" @@ "Ë" :> "ë" @@ "Ì" :> "ì" @@ "Í" :> "í" @@
  "Î" :> "î" @@ "Ï" :> "ï" @@ "Ð" :> "ð" @@ "Ñ" :> "ñ" @@ "Ò" :> "ò" @@
  "Ó" :> "ó" @@ "Ô" :> "ô" @@ "Õ" :> "õ" @@ "Ö" :> "ö" @@ "Ø" :> "ø" @@
  "Ù" :> "ù" @@ "Ú" :> "ú" @@ "Û" :> "û" @@ "Ü" :> "ü" @@ "Ý" :> "ý" @@
  "Þ" :> "þ"

\* str.lower() of one character: any other character of the alphabet is kept
LowerChar(c) == IF c \in DOMAIN LowerCase THEN LowerCase[c] ELSE c

Lower(s) == [i \in 1..Len(s) |-> LowerChar(s[i])]

EndsWith(s, suf) ==
  /\ Len(suf) <= Len(s)
  /\ SubSeq(s, Len(s) - Len(suf) + 1, Len(s)) = suf

\* str.rfind("."): the last index of a dot, 0-based, -1 when there is none
RFindDot(s) ==
  LET dots == {i \in 1..Len(s) : s[i] = "."}
  IN  IF dots = {} THEN -1 ELSE (CHOOSE i \in dots : \A j \in dots : j <= i) - 1

\* pathlib.PurePath.suffix of a path whose last component is s
PathSuffix(s) ==
  LET i == RFindDot(s)
  IN  IF 0 < i /\ i < Len(s) - 1 THEN SubSeq(s, i + 1, Len(s)) ELSE <<>>

JAR_EXTENSIONS == { <<".", "j", "a", "r">>, <<".", "w", "a", "r">>,
                    <<".", "e", "a", "r">> }

N_JndiManager ==
  <<"J","n","d","i","M","a","n","a","g","e","r",".","c","l","a","s","s">>

FILENAMES == { Lower(p) : p \in {N_JndiManager} }

N_JndiUpper ==
  <<"J","N","D","I","M","A","N","A","G","E","R",".","C","L","A","S","S">>

N_AppJar   == <<"A","p","p",".","J","A","R">>
N_LibWar   == <<"l","i","b",".","w","a","r">>
N_Notes    == <<"n","o","t","e","s",".","t","x","t">>
N_DotJar   == <<".","j","a","r">>
N_Dir      == <<"d">>
N_Loop     == <<"l","o","o","p">>

\* name.endswith(JAR_EXTENSIONS), lines 91 and 124
HasJarExtension(name) == \E x \in JAR_EXTENSIONS : EndsWith(Lower(name), x)

\* name in FILENAMES, lines 93, 122 and 229
IsTargetName(name) == Lower(name) \in FILENAMES

\* p.suffix.lower() in JAR_EXTENSIONS, line 233
HasJarSuffix(name) == Lower(PathSuffix(name)) \in JAR_EXTENSIONS

----------------------------------------------------------------------------
(* The reference tables and the digest *)

BadHashes ==
  { "04fdd701809d17465c17c7e603b1b202", "21f055b62c15453f0d7970a9d994cab7",
    "3bd9f41b89ce4fe8ccbf73e43195a5ce", "415c13e7c8505fb056d540eac29b72fa",
    "5824711d6c68162eb535cc4dbf7485d3", "6b15f42c333ac39abacfeeeb18852a44",
    "8b2260b1cce64144f6310876f94b1638", "a193703904a3f18fb3c90a877eb5c8a7",
    "f1d630c48928096a484e4b95ccb162a0" }

\* Known BAD: digest -> version label
MD5_BAD ==
  [h \in BadHashes |->
     CASE h = "04fdd701809d17465c17c7e603b1b202" -> "log4j 2.9.0 - 2.11.2"
       [] h = "21f055b62c15453f0d7970a9d994cab7" -> "log4j 2.13.0 - 2.13.3"
       [] h = "3bd9f41b89ce4fe8ccbf73e43195a5ce" -> "log4j 2.6 - 2.6.2"
       [] h = "415c13e7c8505fb056d540eac29b72fa" -> "log4j 2.7 - 2.8.1"
       [] h = "5824711d6c68162eb535cc4dbf7485d3" -> "log4j 2.12.0 - 2.12.1"
       [] h = "6b15f42c333ac39abacfeeeb18852a44" -> "log4j 2.1 - 2.3"
       [] h = "8b2260b1cce64144f6310876f94b1638" -> "log4j 2.4 - 2.5"
       [] h = "a193703904a3f18fb3c90a877eb5c8a7" -> "log4j 2.8.2"
       [] OTHER -> "log4j 2.14.0 - 2.14.1"]

\* Known GOOD: digest -> version label
MD5_GOOD ==
  [h \in {"5d253e53fa993e122ff012221aa49ec3", "ba1cf8f81e7b31c709768561ba8ab558"}
     |-> IF h = "5d253e53fa993e122ff012221aa49ec3"
         THEN "log4j 2.15.0" ELSE "log4j 2.16.0"]

\* The contents a file can have, and the MD5 of each (hashlib.md5 is not
\* modelled bit by bit: a content is named by the digest its bytes have).
Contents == {"vuln_2_14", "safe_2_16", "other"}

HashOf(c) ==
  CASE c = "vuln_2_14" -> "f1d630c48928096a484e4b95ccb162a0"
    [] c = "safe_2_16" -> "ba1cf8f81e7b31c709768561ba8ab558"
    [] OTHER           -> "415290769594460e2e485922904f345d"

----------------------------------------------------------------------------
(* Nodes and paths *)

Node(k, n, f, x, d, ks) ==
  [kind |-> k, name |-> n, fault |-> f, exc |-> x, data |-> d, kids |-> ks]

Digit(i) == CASE i = 1 -> "1" [] i = 2 -> "2" [] i = 3 -> "3" [] i = 4 -> "4"
              [] i = 5 -> "5" [] i = 6 -> "6" [] i = 7 -> "7" [] OTHER -> "8"

\* the name of the directory at position i of a listing
DirName(i) == <<"d", Digit(i)>>

\* the directory part of the i-th command line argument
ArgDir(i) == <<"r", Digit(i)>>

CwdName == <<"/", "w">>

\* Path.resolve() of a relative path: the path below the working directory
Resolve(p) == <<CwdName>> \o p

\* the path main() is given as its i-th argument
RootPath(rs, i) ==
  IF rs[i].kind = "dir" THEN <<ArgDir(i)>> ELSE <<ArgDir(i), rs[i].name>>

\* Path.is_file() / DirEntry.is_file(): symbolic links are followed
IsFile(n) == n.kind = "file" \/ (n.kind = "link" /\ n.data = "file")

\* DirEntry.is_dir(follow_symlinks=follow), line 104
IsDir(n, follow) ==
  n.kind = "dir" \/ (follow /\ n.kind = "link" /\ n.data = "dir")

\* the test of line 87 left out
NeverSymlink(n) == FALSE

\* DirEntry.is_symlink(), line 87
IsSymlink(n) == n.kind = "link"

----------------------------------------------------------------------------
(* Scenarios of the directory walk: every tree of at most MaxNodes nodes    *)
(* with at most MaxFaults failing directories.  Names are distinct within   *)
(* one directory, as on a filesystem.                                       *)

WalkLeaves ==
  { Node("file", N_JndiManager, "none", "IOError", "other", <<>>),
    Node("file", N_JndiUpper, "none", "IOError", "other", <<>>),
    Node("file", N_AppJar, "none", "IOError", "other", <<>>),
    Node("file", N_Notes, "none", "IOError", "other", <<>>),
    Node("link", N_LibWar, "none", "IOError", "file", <<>>),
    Node("link", N_Loop, "none", "IOError", "dir", <<>>) }

\* a directory placed at position i of its parent's listing
Placed(t, i) == IF t.kind = "dir" THEN [t EXCEPT !.name = DirName(i)] ELSE t

RECURSIVE WalkTrees(_, _), WalkForests(_, _)
\* the trees of exactly n nodes with exactly f failing directories
WalkTrees(n, f) ==
  IF n < 1 \/ f < 0 THEN {}
  ELSE (IF n = 1 /\ f = 0 THEN WalkLeaves ELSE {})
       \cup { Node("dir", N_Dir, "none", "IOError", "other", ks) :
                ks \in WalkForests(n - 1, f) }
       \cup { Node("dir", N_Dir, "scandir", "IOError", "other", ks) :
                ks \in WalkForests(n - 1, f - 1) }
       \cup { Node("dir", N_Dir, "iter", "IOError", "other", ks) :
                ks \in IF n > 1 THEN WalkForests(n - 1, f - 1) ELSE {} }

\* the listings of exactly m nodes in all, with exactly f failing directories
WalkForests(m, f) ==
  IF m < 0 \/ f < 0 THEN {}
  ELSE IF m = 0 THEN (IF f = 0 THEN {<<>>} ELSE {})
  ELSE UNION { LET last == WalkTrees(k, g)
               IN  UNION { { Append(r, Placed(t, Len(r) + 1)) :
                               t \in { u \in last :
                                         \A j \in 1..Len(r) : r[j].name # u.name } } :
                           r \in WalkForests(m - k, f - g) } :
               k \in 1..m, g \in 0..f }

\* the root path is a directory or a regular file
WalkRoots(nodes, faults) ==
  { t \in UNION { WalkTrees(n, f) : n \in 1..nodes, f \in 0..faults } :
      t.kind # "link" }

----------------------------------------------------------------------------
(* iter_scandir and scantree, as the chain of suspended generators          *)

\* os.scandir(path) raises: the path is no directory, or it cannot be read
ScandirFails(n) == ~IsDir(n, TRUE) \/ n.fault = "scandir"

\* the directory a frame lists: the entry itself, or the target of a link
DirOf(n) == IF n.kind = "link" THEN roots[rootIdx] ELSE n

\* the iterator of a directory raises once it has returned idx entries
IterFails(n, idx) == n.fault = "iter" /\ idx = 1

\* no handler in scantree: the error ends every generator up to line 95
ScantreeNoCatch(enclosing) == <<>>

\* except IOError of scantree, lines 108-109: the generator that raised ends,
\* the generators that enclose it go on
ScantreeCatch(enclosing) == enclosing

\* the for loop of main() is given the next candidate, or the walk of this
\* root path is over
WalkOn(stack) ==
  /\ dstack' = stack
  /\ IF stack = <<>>
     THEN /\ rootIdx' = rootIdx + 1
          /\ pc' = "start"
          /\ wpc' = "isfile"
     ELSE /\ wpc' = "iter"
          /\ UNCHANGED <<rootIdx, pc>>

Top == dstack[Len(dstack)]

Advanced == [dstack EXCEPT ![Len(dstack)].idx = @ + 1]

NextEntry == DirOf(Top.node).kids[Top.idx + 1]

HasNextEntry ==
  /\ pc = "walk" /\ wpc = "iter"
  /\ ~IterFails(DirOf(Top.node), Top.idx)
  /\ Top.idx < Len(DirOf(Top.node).kids)

NotMain == UNCHANGED <<jstack, cur, zf, heap, open, stats, out>>

\* lines 82-84: the path names a regular file
IterScandirFile ==
  /\ pc = "walk" /\ wpc = "isfile"
  /\ IsFile(roots[rootIdx])
  /\ cand' = [path |-> RootPath(roots, rootIdx), node |-> roots[rootIdx]]
  /\ yielded' = Append(yielded, cand')
  /\ pc' = "body"
  /\ wpc' = "scan"
  /\ UNCHANGED <<roots, rootIdx, dstack>>
  /\ NotMain

\* lines 86, 101-102: scantree(path) opens the root path
ScanRoot ==
  /\ pc = "walk"
  /\ wpc = "scan" \/ (wpc = "isfile" /\ ~IsFile(roots[rootIdx]))
  /\ IF ScandirFails(roots[rootIdx])
     THEN WalkOn(ScantreeCatch(<<>>))
     ELSE WalkOn(<<[node |-> roots[rootIdx],
                    path |-> RootPath(roots, rootIdx), idx |-> 0]>>)
  /\ UNCHANGED <<roots, cand, yielded>>
  /\ NotMain

\* line 103: the listing is exhausted
ScanExhausted ==
  /\ pc = "walk" /\ wpc = "iter"
  /\ ~IterFails(DirOf(Top.node), Top.idx)
  /\ Top.idx = Len(DirOf(Top.node).kids)
  /\ WalkOn(SubSeq(dstack, 1, Len(dstack) - 1))
  /\ UNCHANGED <<roots, cand, yielded>>
  /\ NotMain

\* line 103 raises, lines 108-109 catch it in the same generator
ScanIterError ==
  /\ pc = "walk" /\ wpc = "iter"
  /\ IterFails(DirOf(Top.node), Top.idx)
  /\ WalkOn(ScantreeCatch(SubSeq(dstack, 1, Len(dstack) - 1)))
  /\ UNCHANGED <<roots, cand, yielded>>
  /\ NotMain

\* lines 104-105: a subdirectory is entered, os.scandir succeeds
ScanDescend ==
  /\ HasNextEntry
  /\ IsDir(NextEntry, FALSE)
  /\ ~ScandirFails(NextEntry)
  /\ WalkOn(Append(Advanced, [node |-> NextEntry,
                              path |-> Append(Top.path, NextEntry.name),
                              idx |-> 0]))
  /\ UNCHANGED <<roots, cand, yielded>>
  /\ NotMain

\* lines 104-105, 102 raises in the generator of the subdirectory
ScanDescendFail ==
  /\ HasNextEntry
  /\ IsDir(NextEntry, FALSE)
  /\ ScandirFails(NextEntry)
  /\ WalkOn(ScantreeCatch(Advanced))
  /\ UNCHANGED <<roots, cand, yielded>>
  /\ NotMain

\* lines 107, 87-88: a symbolic link is passed over
ScanSkipLink ==
  /\ HasNextEntry
  /\ ~IsDir(NextEntry, FALSE)
  /\ IsSymlink(NextEntry)
  /\ WalkOn(Advanced)
  /\ UNCHANGED <<roots, cand, yielded>>
  /\ NotMain

\* lines 89-94: what iter_scandir yields for a directory entry
IsCandidate(e) ==
  IsFile(e) /\ (HasJarExtension(e.name) \/ IsTargetName(e.name))

\* lines 107, 89-94: a regular file with a name of interest is yielded
ScanYield ==
  /\ HasNextEntry
  /\ ~IsDir(NextEntry, FALSE)
  /\ ~IsSymlink(NextEntry)
  /\ IsCandidate(NextEntry)
  /\ dstack' = Advanced
  /\ cand' = [path |-> Append(Top.path, NextEntry.name), node |-> NextEntry]
  /\ yielded' = Append(yielded, cand')
  /\ pc' = "body"
  /\ UNCHANGED <<roots, rootIdx, wpc>>
  /\ NotMain

\* lines 107, 89-94: any other entry is passed over
ScanSkipFile ==
  /\ HasNextEntry
  /\ ~IsDir(NextEntry, FALSE)
  /\ ~IsSymlink(NextEntry)
  /\ ~IsCandidate(NextEntry)
  /\ WalkOn(Advanced)
  /\ UNCHANGED <<roots, cand, yielded>>
  /\ NotMain

WalkStep ==
  \/ IterScandirFile
  \/ ScanRoot
  \/ ScanExhausted
  \/ ScanIterError
  \/ ScanDescend
  \/ ScanDescendFail
  \/ ScanSkipLink
  \/ ScanYield
  \/ ScanSkipFile

\* a caller that only collects what iter_scandir yields
Collect ==
  /\ pc = "body"
  /\ pc' = "walk"
  /\ UNCHANGED <<roots, rootIdx, wpc, dstack, cand, yielded>>
  /\ NotMain

NoNode == Node("file", <<>>, "none", "IOError", "other", <<>>)

NoCand == [path |-> <<>>, node |-> NoNode]

NoEntry == [path |-> <<>>, zpath |-> <<>>, node |-> NoNode, parents |-> 0,
            loc |-> <<>>, via |-> <<>>]

NoStats == [vulnerable |-> 0, good |-> 0, unknown |-> 0]

InitRest ==
  /\ rootIdx = 1
  /\ wpc = "isfile"
  /\ dstack = <<>>
  /\ cand = NoCand
  /\ yielded = <<>>
  /\ jstack = <<>>
  /\ cur = NoEntry
  /\ zf = NoEntry
  /\ heap = <<>>
  /\ open = {}
  /\ stats = NoStats
  /\ out = <<>>

\* the root path is a tree of exactly n nodes with f failing directories: a
\* regular file, or a directory given by its fault d, a listing r and the
\* entry t that comes last
RootIsTree(n, f) ==
  \/ /\ n = 1 /\ f = 0
     /\ roots \in { <<t>> : t \in { u \in WalkLeaves : u.kind # "link" } }
  \/ \E d \in {"none", "scandir", "iter"} :
       LET g == IF d = "none" THEN f ELSE f - 1
       IN  \/ /\ n = 1 /\ g = 0 /\ d # "iter"
              /\ roots = <<Node("dir", N_Dir, d, "IOError", "other", <<>>)>>
           \/ \E k \in 1..n - 1, h \in 0..g :
                \E r \in WalkForests(n - 1 - k, g - h) :
                  \E t \in { u \in WalkTrees(k, h) :
                               \A j \in 1..Len(r) : r[j].name # u.name } :
                    roots = <<Node("dir", N_Dir, d, "IOError", "other",
                                   Append(r, Placed(t, Len(r) + 1)))>>

\* iter_scandir(path) alone, on one root path
InitWalk ==
  /\ \E n \in 1..MaxNodes, f \in 0..MaxFaults : RootIsTree(n, f)
  /\ pc = "walk"
  /\ InitRest

WalkNext == WalkStep \/ Collect

WalkSpec == InitWalk /\ [][WalkNext]_vars /\ WF_vars(WalkNext)

----------------------------------------------------------------------------
(* Lists: a Python list is an object on the heap, named by its index *)

\* a new list object
ListNew(h, xs) == [heap |-> Append(h, xs), ref |-> Len(h) + 1]

\* parents += [x]: the list object itself is extended
ListAppendInPlace(h, ref, x) ==
  [heap |-> [h EXCEPT ![ref] = Append(@, x)], ref |-> ref]

\* parents + [x], lines 126 and 241: a new list object
ListConcat(h, ref, x) == ListNew(h, Append(h[ref], x))

\* the chain handed down unextended
NestedParentsSame(h, ref, zpath) == [heap |-> h, ref |-> ref]

\* parents=parents + [zpath], line 126
NestedParents(h, ref, zpath) == ListConcat(h, ref, zpath)

\* parents = parents or [], line 116
ParentsOrEmpty(h, ref) ==
  IF h[ref] = <<>> THEN ListNew(h, <<>>) ELSE [heap |-> h, ref |-> ref]

\* Path(zinfo.filename), line 121, of the entry at position i of an archive
ZPath(arc, i) == <<DirName(i), arc.kids[i].name>>

\* Path.name: the last component
BaseName(p) == p[Len(p)]

----------------------------------------------------------------------------
(* md5_digest and check_vulnerable *)

\* a read error swallowed: the digest of what was read so far
Md5DigestPartial(stream) ==
  [ok |-> TRUE, exc |-> "none",
   val |-> IF stream.fault = "read" THEN "d41d8cd98f00b204e9800998ecf8427e"
           ELSE HashOf(stream.data)]

\* md5_digest(fobj), lines 70-75: the digest of the whole stream, or the
\* exception a read raises
Md5Digest(stream) ==
  IF stream.fault = "read"
  THEN [ok |-> FALSE, exc |-> stream.exc, val |-> ""]
  ELSE [ok |-> TRUE, exc |-> "none", val |-> HashOf(stream.data)]

\* the known-safe table left out
VerdictNoGood(md5sum) ==
  IF md5sum \in DOMAIN MD5_BAD THEN "vulnerable" ELSE "unknown"

\* the branch of lines 170-180
Verdict(md5sum) ==
  IF md5sum \in DOMAIN MD5_BAD THEN "vulnerable"
  ELSE IF md5sum \in DOMAIN MD5_GOOD THEN "good"
  ELSE "unknown"

\* [bold(first)] + path_chain, lines 164-165: the elements " -> ".join joins
RenderChain(first, rest) ==
  [i \in 1..Len(rest) + 1 |->
     [text |-> (<<first>> \o rest)[i], bold |-> i = 1]]

Line(ty, tag, chain, md5, comment) ==
  [type |-> ty, tag |-> tag, chain |-> chain, md5 |-> md5, comment |-> comment,
   root |-> 0, path |-> <<>>, loc |-> <<>>, via |-> <<>>]

\* nothing printed for a file of the known-safe table
ReportLinesNoGood(verdict, chain, md5sum) ==
  CASE verdict = "vulnerable" ->
         <<Line("report", "VULNERABLE", chain, md5sum, MD5_BAD[md5sum])>>
    [] verdict = "good" -> <<>>
    [] OTHER -> <<Line("report", "UNKNOWN", chain, md5sum, "")>>

\* the print of lines 172, 176, 179
ReportLines(verdict, chain, md5sum) ==
  CASE verdict = "vulnerable" ->
         <<Line("report", "VULNERABLE", chain, md5sum, MD5_BAD[md5sum])>>
    [] verdict = "good" ->
         <<Line("report", "GOOD", chain, md5sum, MD5_GOOD[md5sum])>>
    [] OTHER -> <<Line("report", "UNKNOWN", chain, md5sum, "")>>

\* stats[verdict] += 1, lines 173, 177, 180
Count(st, verdict) == [st EXCEPT ![verdict] = @ + 1]

\* check_vulnerable(fobj, path_chain, stats), lines 158-180, where path_chain
\* is the list object ref of heap h
CheckVulnerable(stream, h, ref, st) ==
  LET d == Md5Digest(stream)
      first == Head(h[ref])
      popped == [h EXCEPT ![ref] = Tail(@)]
      chain == RenderChain(first, popped[ref])
      v == Verdict(d.val)
  IN  IF ~d.ok
      THEN [raised |-> TRUE, exc |-> d.exc, heap |-> h, stats |-> st,
            lines |-> <<>>]
      ELSE [raised |-> FALSE, exc |-> "none", heap |-> popped,
            stats |-> Count(st, v), lines |-> ReportLines(v, chain, d.val)]

----------------------------------------------------------------------------
(* Scenarios of a whole scan: the files, directories and archives main() is  *)
(* given as its root paths.                                                 *)

TargetFile(c) == Node("file", N_JndiManager, "none", "IOError", c, <<>>)

TargetEntry(c) == Node("entry", N_JndiManager, "none", "IOError", c, <<>>)

\* what zfile.open raises: an OSError, BadZipFile (a bad local header),
\* RuntimeError (an encrypted entry, no password)
OpenExcs == {"IOError", "BadZipFile", "RuntimeError"}

\* what reading an entry stream raises, in md5_digest or in ZipFile(fobj) of
\* a nested archive: an OSError, BadZipFile (bad CRC, no zip), zlib.error (a
\* corrupt deflate stream)
ReadExcs == {"IOError", "BadZipFile", "zlib.error"}

\* archive entries that raise no error
EntryLeaves ==
  { TargetEntry(c) : c \in Contents }
  \cup { Node("entry", N_Notes, "none", "IOError", "other", <<>>) }

\* archive entries that raise: a target that cannot be opened or read, a
\* nested archive that cannot be opened or is no zip
EntryFaults ==
  { Node("entry", n, "open", x, "other", <<>>) :
      n \in {N_JndiManager, N_LibWar}, x \in OpenExcs }
  \cup { Node("entry", N_JndiManager, "read", x, "other", <<>>) : x \in ReadExcs }
  \cup { Node("entry", N_LibWar, "ctor", x, "other", <<>>) : x \in ReadExcs }

\* The archives are listed by size: tab[j + 1][g + 1] is the set of the
\* listings of exactly j nodes (nested entries included) with g faults.

\* the entries of exactly n nodes and f faults
ArcTrees(tab, n, f) ==
  (IF n = 1 /\ f = 0 THEN EntryLeaves ELSE {})
  \cup (IF n = 1 /\ f = 1 THEN EntryFaults ELSE {})
  \cup { Node("entry", N_LibWar, "none", "IOError", "other", ks) :
           ks \in tab[n][f + 1] }

\* the listings of exactly m nodes and f faults
ArcForests(tab, m, f) ==
  IF m = 0 THEN (IF f = 0 THEN {<<>>} ELSE {})
  ELSE UNION { { Append(r, t) : r \in tab[m - k + 1][f - g + 1],
                                t \in ArcTrees(tab, k, g) } :
               k \in 1..m, g \in 0..f }

RECURSIVE ArcRow(_, _, _, _)
\* the listings of m nodes, by their number of faults
ArcRow(tab, m, faults, row) ==
  IF Len(row) > faults THEN row
  ELSE ArcRow(tab, m, faults, Append(row, ArcForests(tab, m, Len(row))))

RECURSIVE ArcTable(_, _, _)
ArcTable(tab, entries, faults) ==
  IF Len(tab) > entries THEN tab
  ELSE ArcTable(Append(tab, ArcRow(tab, Len(tab), faults, <<>>)), entries, faults)

\* the archive on disk that lists the entries ks
Archive(ks) == Node("file", N_AppJar, "none", "IOError", "other", ks)

\* the archives of at most entries nodes and at most faults faults
ArchiveRoots(entries, faults) ==
  LET tab == ArcTable(<<>>, entries, faults)
  IN  { Archive(ks) :
          ks \in UNION { tab[m + 1][f + 1] : m \in 0..entries, f \in 0..faults } }

\* the listings of fewer than MaxEntries nodes
ArcTab == ArcTable(<<>>, MaxEntries - 1, MaxFaults)

\* main() is given one archive of exactly m nodes and f faults: a listing
\* and the entry that comes last
RootIsArchive(m, f) ==
  \/ m = 0 /\ f = 0 /\ roots = <<Archive(<<>>)>>
  \/ \E k \in 1..m, g \in 0..f :
       \E r \in ArcTab[m - k + 1][f - g + 1], t \in ArcTrees(ArcTab, k, g) :
         roots = <<Archive(Append(r, t))>>

SmallJar == Node("file", N_LibWar, "none", "IOError", "other",
                 <<TargetEntry("vuln_2_14")>>)

\* files on disk that raise no error
DiskLeaves ==
  { TargetFile(c) : c \in Contents }
  \cup { SmallJar,
         Node("file", N_Notes, "none", "IOError", "other", <<>>),
         Node("file", N_DotJar, "none", "IOError", "other", <<>>) }

\* files on disk that raise: a target file that cannot be opened or read, an
\* archive that cannot be opened or is no zip
DiskFaults ==
  { Node("file", N_JndiManager, f, "IOError", "other", <<>>) :
      f \in {"open", "read"} }
  \cup { [SmallJar EXCEPT !.fault = "open"],
         [SmallJar EXCEPT !.fault = "ctor"],
         [SmallJar EXCEPT !.fault = "ctor", !.exc = "BadZipFile"] }

\* entries listed in the directories of the scan scenarios
MaxListing == 2

RECURSIVE Listings(_, _)
\* the listings of n files with distinct names, f of which raise
Listings(n, f) ==
  IF n < 0 \/ f < 0 THEN {}
  ELSE IF n = 0 THEN (IF f = 0 THEN {<<>>} ELSE {})
  ELSE UNION { { Append(r, t) :
                   t \in { u \in DiskLeaves :
                             \A j \in 1..Len(r) : r[j].name # u.name } } :
               r \in Listings(n - 1, f) }
       \cup
       UNION { { Append(r, t) :
                   t \in { u \in DiskFaults :
                             \A j \in 1..Len(r) : r[j].name # u.name } } :
               r \in Listings(n - 1, f - 1) }

DirRoots(files, faults) ==
  { Node("dir", N_Dir, "none", "IOError", "other", ks) :
      ks \in UNION { Listings(n, f) : n \in 0..files, f \in 0..faults } }

\* the smaller trees of the walk scenarios: subdirectories, links, failing
\* directories
TreeRoots(nodes, faults) == WalkRoots(nodes - 1, faults)

\* the root paths of at most one file or one archive entry
SmallRoots(faults) == ArchiveRoots(1, faults) \cup DirRoots(1, faults)

RECURSIVE RootLists(_, _)
\* the lists of exactly n root paths, each of SmallRoots
RootLists(n, faults) ==
  IF n = 0 THEN {<<>>}
  ELSE { Append(rs, r) : rs \in RootLists(n - 1, faults), r \in SmallRoots(faults) }

\* main() is given n root paths, each of SmallRoots
RootsAreSmall(n) ==
  \E rs \in RootLists(n - 1, MaxFaults), r \in SmallRoots(MaxFaults) :
    roots = Append(rs, r)

\* what main() is given as args.path: one root path of up to the bounds, or
\* up to MaxRoots root paths of SmallRoots
Scenario ==
  \/ \E m \in 0..MaxEntries, f \in 0..MaxFaults : RootIsArchive(m, f)
  \/ roots \in { <<r>> : r \in DirRoots(MaxListing, MaxFaults)
                                \cup TreeRoots(MaxNodes, MaxFaults) }
  \/ \E n \in 1..MaxRoots : RootsAreSmall(n)

----------------------------------------------------------------------------
(* main(): the loop over the root paths, lines 221-251 *)

WalkVars == <<rootIdx, wpc, dstack, cand, yielded>>

\* the walk while main() handles a candidate: the generator of line 228 is
\* suspended at its yield; an exception that leaves main() drops it, which
\* closes the scantree generators of lines 99-109
WalkHeld ==
  /\ dstack' = IF pc' = "crashed" THEN <<>> ELSE dstack
  /\ UNCHANGED <<rootIdx, wpc, cand, yielded>>

Handle(k, loc) == [kind |-> k, path |-> cand.path, loc |-> loc]

\* the file object a suspended iter_jarfile holds as fobj: the file of line
\* 237 for the archive on disk, the entry stream of line 126 for a nested one
FrameObj(path, loc) ==
  [kind |-> IF loc = <<>> THEN "jarfile" ELSE "nested", path |-> path, loc |-> loc]

\* The file objects of lines 237 and 126 are closed by no statement: the
\* interpreter closes each when the last reference to it goes.  A reference
\* is held by the generator it was passed to, and by every entry stream
\* opened from its archive, so by the stream the name zf of line 240 is
\* still bound to, which in turn holds the archives that enclose it.
Held(stack, z) ==
  { FrameObj(cand.path, stack[i].loc) : i \in 1..Len(stack) }
  \cup { FrameObj(z.path, SubSeq(z.loc, 1, n)) : n \in 0..Len(z.loc) - 1 }

\* what is left open of handles hs once the unreferenced file objects are
\* closed
Release(hs, stack, z) ==
  { h \in hs : h.kind \in {"jarfile", "nested"} => h \in Held(stack, z) }

\* the ZipFile objects of the with statements of the generators of stack
ZipHandles(stack) ==
  { Handle("zip", stack[i].loc) : i \in { j \in 1..Len(stack) : stack[j].started } }

\* the report lines of one classification, with where the candidate was found
Found(lines, loc, via) ==
  [i \in 1..Len(lines) |->
     [lines[i] EXCEPT !.root = rootIdx, !.path = cand.path, !.loc = loc,
                      !.via = via]]

\* lines 226-227
StartRoot ==
  /\ pc = "start"
  /\ rootIdx <= Len(roots)
  /\ out' = Append(out, [Line("scanning", "", <<>>, "", "") EXCEPT !.root = rootIdx])
  /\ pc' = "walk"
  /\ UNCHANGED <<roots, jstack, cur, zf, heap, open, stats>>
  /\ UNCHANGED WalkVars

CountLine(tag, n) ==
  IF n # 0 THEN <<[Line("count", tag, <<>>, "", "") EXCEPT !.root = n]>> ELSE <<>>

\* lines 245-251
SummaryLines(st) ==
  <<Line("summary", "", <<>>, "", "")>>
    \o CountLine("vulnerable", st.vulnerable)
    \o CountLine("good", st.good)
    \o CountLine("unknown", st.unknown)

Summary ==
  /\ pc = "start"
  /\ rootIdx > Len(roots)
  /\ out' = out \o SummaryLines(stats)
  /\ pc' = "done"
  /\ UNCHANGED <<roots, jstack, cur, zf, heap, open, stats>>
  /\ UNCHANGED WalkVars

\* lines 229-231: a target file is opened; an error leaves main()
MainOpenTarget ==
  /\ pc = "body"
  /\ IsTargetName(BaseName(cand.path))
  /\ IF cand.node.fault = "open"
     THEN pc' = "crashed" /\ open' = open
     ELSE pc' = "hashfile" /\ open' = open \cup {Handle("file", <<>>)}
  /\ UNCHANGED <<roots, jstack, cur, zf, heap, stats, out>>
  /\ WalkHeld

\* lines 231-232: check_vulnerable(fobj, [p], stats); the with statement
\* closes the file, an error leaves main()
MainCheckFile ==
  /\ pc = "hashfile"
  /\ LET l == ListNew(heap, <<cand.path>>)
         r == CheckVulnerable(cand.node, l.heap, l.ref, stats)
     IN  /\ heap' = r.heap
         /\ stats' = r.stats
         /\ out' = out \o Found(r.lines, <<>>, <<cand.node>>)
         /\ pc' = IF r.raised THEN "crashed" ELSE "suffix"
  /\ open' = open \ {Handle("file", <<>>)}
  /\ UNCHANGED <<roots, jstack, cur, zf>>
  /\ WalkHeld

AtSuffixTest ==
  \/ pc = "suffix"
  \/ pc = "body" /\ ~IsTargetName(BaseName(cand.path))

\* line 233: not an archive
MainNoJar ==
  /\ AtSuffixTest
  /\ ~HasJarSuffix(BaseName(cand.path))
  /\ pc' = "walk"
  /\ UNCHANGED <<roots, jstack, cur, zf, heap, open, stats, out>>
  /\ UNCHANGED WalkVars

\* lines 233-238: the archive is opened and handed to iter_jarfile with
\* parents=[p.resolve()]; an IOError is caught at line 242
MainOpenJar ==
  /\ AtSuffixTest
  /\ HasJarSuffix(BaseName(cand.path))
  /\ IF cand.node.fault = "open"
     THEN /\ pc' = "walk"
          /\ UNCHANGED <<jstack, heap, open>>
     ELSE LET l == ListNew(heap, <<Resolve(cand.path)>>)
          IN  /\ heap' = l.heap
              /\ jstack' = <<[arc |-> cand.node, idx |-> 0, parents |-> l.ref,
                              loc |-> <<>>, via |-> <<cand.node>>,
                              started |-> FALSE]>>
              /\ open' = open \cup {Handle("jarfile", <<>>)}
              /\ pc' = "jar"
  /\ UNCHANGED <<roots, cur, zf, stats, out>>
  /\ UNCHANGED WalkVars

JTop == jstack[Len(jstack)]

JRest == SubSeq(jstack, 1, Len(jstack) - 1)

JAdvanced == [jstack EXCEPT ![Len(jstack)].idx = @ + 1]

JNext == JTop.arc.kids[JTop.idx + 1]

\* the for loop of lines 236-238 is given the next entry, or is over
JarOn(stack) ==
  /\ jstack' = stack
  /\ pc' = IF stack = <<>> THEN "walk" ELSE "jar"

\* the classes the except clauses of lines 128 and 130 name
JarCatches(exc) == exc \in {"IOError", "BadZipFile"}

\* except IOError / except BadZipFile of iter_jarfile, lines 128-131: the
\* generator that raised ends and the generators that enclose it go on; an
\* exception of any other class ends every one of them
JarCatch(enclosing, exc) == IF JarCatches(exc) THEN enclosing ELSE <<>>

\* where an exception raised in the body of the loop of lines 236-241, or
\* let through by iter_jarfile, goes: an IOError to line 242, any other out
\* of main()
BodyRaises(exc) == pc' = IF exc = "IOError" THEN "walk" ELSE "crashed"

\* the loop is left by an exception: the generators are dropped and closed,
\* and with them their ZipFile objects
Abandoned(hs, z) == Release(hs \ ZipHandles(jstack), <<>>, z)

\* the handles of hs an exception of class exc leaves open.  Caught at line
\* 242, the loop is abandoned.  Not caught, it leaves main() with its
\* traceback, whose frames (iter_jarfile, ZipFile.__init__, ZipFile.open)
\* go on referring to the file objects of lines 237 and 126 until the process
\* exits: the with statements close the ZipFile objects and nothing else
Unwound(hs, z, exc) ==
  IF exc = "IOError" THEN Abandoned(hs, z) ELSE hs \ ZipHandles(jstack)

\* a generator has raised exc, the generators of enclosing around it
JarRaised(enclosing, exc) ==
  /\ jstack' = JarCatch(enclosing, exc)
  /\ IF JarCatches(exc)
     THEN /\ pc' = IF enclosing = <<>> THEN "walk" ELSE "jar"
          /\ open' = Release(open \ (ZipHandles(jstack) \ ZipHandles(enclosing)),
                             enclosing, zf)
     ELSE /\ BodyRaises(exc)
          /\ open' = Unwound(open, zf, exc)

\* lines 116-118: ZipFile(fobj); a file that is no zip ends this generator
JarOpenZip ==
  /\ pc = "jar"
  /\ ~JTop.started
  /\ LET l == ParentsOrEmpty(heap, JTop.parents)
     IN  /\ heap' = l.heap
         /\ IF JTop.arc.fault = "ctor"
            THEN JarRaised(JRest, JTop.arc.exc)
            ELSE /\ JarOn([jstack EXCEPT ![Len(jstack)].started = TRUE,
                                         ![Len(jstack)].parents = l.ref])
                 /\ open' = open \cup {Handle("zip", JTop.loc)}
  /\ UNCHANGED <<roots, cur, zf, stats, out>>
  /\ WalkHeld

\* line 119 is exhausted: the with statement closes the ZipFile
JarExhausted ==
  /\ pc = "jar"
  /\ JTop.started
  /\ JTop.idx = Len(JTop.arc.kids)
  /\ JarOn(JRest)
  /\ open' = Release(open \ {Handle("zip", JTop.loc)}, JRest, zf)
  /\ UNCHANGED <<roots, cur, zf, heap, stats, out>>
  /\ UNCHANGED WalkVars

JHasNext ==
  /\ pc = "jar"
  /\ JTop.started
  /\ JTop.idx < Len(JTop.arc.kids)

\* lines 122-123: yield (zinfo, zfile, zpath, parents)
JarYield ==
  /\ JHasNext
  /\ IsTargetName(BaseName(ZPath(JTop.arc, JTop.idx + 1)))
  /\ cur' = [path |-> cand.path,
             zpath |-> ZPath(JTop.arc, JTop.idx + 1), node |-> JNext,
             parents |-> JTop.parents, loc |-> Append(JTop.loc, JTop.idx + 1),
             via |-> Append(JTop.via, JNext)]
  /\ jstack' = JAdvanced
  /\ pc' = "entry"
  /\ UNCHANGED <<roots, zf, heap, open, stats, out>>
  /\ UNCHANGED WalkVars

IsNestedJar(p) == ~IsTargetName(BaseName(p)) /\ HasJarExtension(BaseName(p))

\* lines 124-127: the nested archive is opened and walked with
\* parents + [zpath]
JarDescend ==
  /\ JHasNext
  /\ IsNestedJar(ZPath(JTop.arc, JTop.idx + 1))
  /\ JNext.fault # "open"
  /\ LET l == NestedParents(heap, JTop.parents, ZPath(JTop.arc, JTop.idx + 1))
     IN  /\ heap' = l.heap
         /\ JarOn(Append(JAdvanced,
                   [arc |-> JNext, idx |-> 0, parents |-> l.ref,
                    loc |-> Append(JTop.loc, JTop.idx + 1),
                    via |-> Append(JTop.via, JNext), started |-> FALSE]))
  /\ open' = open \cup {Handle("nested", Append(JTop.loc, JTop.idx + 1))}
  /\ UNCHANGED <<roots, cur, zf, stats, out>>
  /\ UNCHANGED WalkVars

\* line 126 raises in zfile.open: lines 128-131 of the generator that lists
\* the entry catch it, its with statement closes the ZipFile
JarDescendFail ==
  /\ JHasNext
  /\ IsNestedJar(ZPath(JTop.arc, JTop.idx + 1))
  /\ JNext.fault = "open"
  /\ JarRaised(JRest, JNext.exc)
  /\ UNCHANGED <<roots, cur, zf, heap, stats, out>>
  /\ WalkHeld

\* lines 119-124: any other entry
JarSkip ==
  /\ JHasNext
  /\ ~IsTargetName(BaseName(ZPath(JTop.arc, JTop.idx + 1)))
  /\ ~HasJarExtension(BaseName(ZPath(JTop.arc, JTop.idx + 1)))
  /\ JarOn(JAdvanced)
  /\ UNCHANGED <<roots, cur, zf, heap, open, stats, out>>
  /\ UNCHANGED WalkVars

\* line 240: zfile.open(zinfo.filename) as zf; an exception leaves the loop
\* of line 236, caught at line 242 or not
MainOpenEntry ==
  /\ pc = "entry"
  /\ IF cur.node.fault = "open"
     THEN /\ BodyRaises(cur.node.exc)
          /\ zf' = zf
          /\ jstack' = <<>>
          /\ open' = Unwound(open, zf, cur.node.exc)
     ELSE /\ pc' = "hashentry"
          /\ zf' = cur
          /\ open' = Release(open \cup {Handle("entry", cur.loc)}, jstack, zf')
          /\ jstack' = jstack
  /\ UNCHANGED <<roots, cur, heap, stats, out>>
  /\ WalkHeld

\* line 241: check_vulnerable(zf, parents + [zpath], stats); the with
\* statement closes the entry; an exception leaves the loop of line 236,
\* caught at line 242 or not
MainCheckEntry ==
  /\ pc = "hashentry"
  /\ LET l == ListConcat(heap, cur.parents, cur.zpath)
         r == CheckVulnerable(cur.node, l.heap, l.ref, stats)
     IN  /\ heap' = r.heap
         /\ stats' = r.stats
         /\ out' = out \o Found(r.lines, cur.loc, cur.via)
         /\ IF r.raised
            THEN /\ BodyRaises(r.exc)
                 /\ jstack' = <<>>
                 /\ open' = Unwound(open \ {Handle("entry", cur.loc)}, zf, r.exc)
            ELSE /\ pc' = "jar"
                 /\ jstack' = jstack
                 /\ open' = open \ {Handle("entry", cur.loc)}
  /\ UNCHANGED <<roots, cur, zf>>
  /\ WalkHeld

Init ==
  /\ Scenario
  /\ pc = "start"
  /\ InitRest

Next ==
  \/ StartRoot
  \/ WalkStep
  \/ MainOpenTarget
  \/ MainCheckFile
  \/ MainNoJar
  \/ MainOpenJar
  \/ JarOpenZip
  \/ JarExhausted
  \/ JarYield
  \/ JarDescend
  \/ JarDescendFail
  \/ JarSkip
  \/ MainOpenEntry
  \/ MainCheckEntry
  \/ Summary

Spec == Init /\ [][Next]_vars

----------------------------------------------------------------------------
(* Properties of the directory walk *)

Range(s) == { s[i] : i \in 1..Len(s) }

YieldedPaths == { c.path : c \in Range(yielded) }

\* the walk of the one root path of WalkSpec is over
WalkDone == pc = "start" /\ rootIdx = 2

RECURSIVE RegularCandidates(_, _)
\* the paths of the regular files with a name of interest below directory n
\* (at path p) that are reached through readable directories alone
RegularCandidates(n, p) ==
  IF n.kind # "dir" \/ n.fault # "none" THEN {}
  ELSE UNION { IF n.kids[i].kind = "dir"
               THEN RegularCandidates(n.kids[i], Append(p, n.kids[i].name))
               ELSE IF /\ n.kids[i].kind = "file"
                       /\ \/ HasJarExtension(n.kids[i].name)
                          \/ IsTargetName(n.kids[i].name)
                    THEN {Append(p, n.kids[i].name)}
                    ELSE {} : i \in 1..Len(n.kids) }

RECURSIVE FaultCount(_)
FaultCount(n) ==
  LET below[i \in 0..Len(n.kids)] ==
        IF i = 0 THEN 0 ELSE below[i - 1] + FaultCount(n.kids[i])
  IN  (IF n.fault = "none" THEN 0 ELSE 1) + below[Len(n.kids)]

\* C3: when the walk of a root is over it has yielded every candidate file
\* that lies outside the directories whose enumeration failed, the entries
\* listed after a failing subdirectory included.
C3_UnreadableSubtreeOnly ==
  WalkDone =>
    RegularCandidates(roots[1], RootPath(roots, 1)) \subseteq YieldedPaths

\* a failing subdirectory is followed by a candidate, which was yielded
C3_Witness ==
  /\ WalkDone
  /\ roots[1].kind = "dir" /\ roots[1].fault = "none"
  /\ Len(roots[1].kids) >= 2
  /\ roots[1].kids[1].kind = "dir" /\ roots[1].kids[1].fault # "none"
  /\ roots[1].kids[2].kind = "file"
  /\ <<ArgDir(1), roots[1].kids[2].name>> \in YieldedPaths

C7_Safe ==
  /\ \A c \in Range(yielded) : c.node.kind # "link"
  /\ \A i \in 1..Len(dstack) : dstack[i].node.kind # "link"
  /\ (WalkDone /\ FaultCount(roots[1]) = 0) =>
        YieldedPaths = RegularCandidates(roots[1], RootPath(roots, 1))
                         \cup (IF roots[1].kind = "file"
                               THEN {RootPath(roots, 1)} ELSE {})

\* C7: the walk of a tree with symbolic links ends, no link is ever yielded
\* or entered, and every regular file with an archive suffix or a target
\* name is yielded.
C7_SymlinksNeverFollowed == []C7_Safe /\ <>WalkDone

\* a link to the root directory is listed before a candidate in a
\* subdirectory, and the walk is over with the candidate yielded
C7_Witness ==
  /\ WalkDone
  /\ roots[1].kind = "dir" /\ Len(roots[1].kids) >= 1
  /\ roots[1].kids[1].kind = "dir" /\ Len(roots[1].kids[1].kids) = 2
  /\ roots[1].kids[1].kids[1].kind = "link"
  /\ roots[1].kids[1].kids[1].data = "dir"
  /\ roots[1].kids[1].kids[2].kind = "file"
  /\ Len(yielded) = 1

----------------------------------------------------------------------------
(* Properties of the scan *)

Reports == { i \in 1..Len(out) : out[i].type = "report" }

Tagged(tag) == { i \in Reports : out[i].tag = tag }

Texts(chain) == [i \in 1..Len(chain) |-> chain[i].text]

RECURSIVE NamesAlong(_, _)
\* the entry names from archive arc down the positions loc
NamesAlong(arc, loc) ==
  IF loc = <<>> THEN <<>>
  ELSE <<ZPath(arc, Head(loc))>> \o NamesAlong(arc.kids[Head(loc)], Tail(loc))

RECURSIVE ReadableEntries(_, _)
\* the positions of the target entries of archive arc (at position loc) that
\* can be read and are reached through archives that can be opened
ReadableEntries(arc, loc) ==
  IF arc.fault # "none" THEN {}
  ELSE UNION { IF IsTargetName(arc.kids[i].name)
               THEN (IF arc.kids[i].fault = "none" THEN {Append(loc, i)} ELSE {})
               ELSE IF HasJarExtension(arc.kids[i].name)
                    THEN ReadableEntries(arc.kids[i], Append(loc, i))
                    ELSE {} : i \in 1..Len(arc.kids) }

Reported(path, loc) ==
  \E i \in Reports : out[i].path = path /\ out[i].loc = loc

\* every readable target entry of every archive the walk has yielded is
\* reported
ArchivesReported ==
  \A c \in Range(yielded) :
    HasJarSuffix(BaseName(c.path)) =>
      \A loc \in ReadableEntries(c.node, <<>>) : Reported(c.path, loc)

\* every readable target file on disk, under every root path, is reported
FilesReported ==
  \A r \in 1..Len(roots) :
    \A p \in RegularCandidates(roots[r], RootPath(roots, r))
               \cup (IF roots[r].kind = "file" THEN {RootPath(roots, r)} ELSE {}) :
      IsTargetName(BaseName(p)) =>
        \/ \E c \in Range(yielded) : c.path = p /\ c.node.fault # "none"
        \/ Reported(p, <<>>)

\* C1: no error ends the scan: main() never ends by an exception, and at the
\* summary every candidate outside a failing one has been processed under
\* every root path.
C1_NoErrorEndsScan ==
  /\ pc # "crashed"
  /\ pc = "done" =>
       /\ { out[i].root : i \in { j \in 1..Len(out) : out[j].type = "scanning" } }
            = 1..Len(roots)
       /\ FilesReported
       /\ \A r \in 1..Len(roots) :
            RegularCandidates(roots[r], RootPath(roots, r)) \subseteq YieldedPaths

\* C2: a failure inside an archive is confined to its branch: when the scan
\* is over, every readable target entry outside the failing branch has been
\* yielded and classified.
C2_FailureConfinedToBranch == pc = "done" => ArchivesReported

\* C4: a candidate that cannot be opened or read, or that lies in a corrupt
\* archive, has no report line, and the counters count the report lines
\* alone, so such a candidate leaves them as they were.
C4_UnreadableNotCounted ==
  /\ \A i \in Reports : \A j \in 1..Len(out[i].via) : out[i].via[j].fault = "none"
  /\ stats.vulnerable = Cardinality(Tagged("VULNERABLE"))
  /\ stats.good = Cardinality(Tagged("GOOD"))
  /\ stats.unknown = Cardinality(Tagged("UNKNOWN"))

\* an entry whose read failed was attempted after an entry that was counted
C4_Witness ==
  /\ pc = "walk"
  /\ cur.node.fault = "read"
  /\ cur.loc = <<2>>
  /\ stats.vulnerable = 1
  /\ Cardinality(Reports) = 1

Streamed == IF pc = "hashfile" THEN cand.node ELSE cur.node

TableOf(h) ==
  IF h \in BadHashes THEN "vulnerable"
  ELSE IF h \in {"5d253e53fa993e122ff012221aa49ec3",
                 "ba1cf8f81e7b31c709768561ba8ab558"} THEN "good"
  ELSE "unknown"

C5_Step ==
  IF pc \in {"hashfile", "hashentry"} /\ pc' \in {"suffix", "jar"}
  THEN stats' = [stats EXCEPT ![TableOf(HashOf(Streamed.data))] = @ + 1]
  ELSE stats' = stats

\* C5: a successful classification adds exactly 1 to the counter of the table
\* the fingerprint is in (unknown when in neither) and leaves the other two;
\* no other step changes a counter, so the counters are never negative and
\* never decrease.
C5_OneCounterPerClassification ==
  /\ [](stats.vulnerable >= 0 /\ stats.good >= 0 /\ stats.unknown >= 0)
  /\ [][C5_Step]_vars

\* one known-vulnerable and one known-safe file have been classified
C5_Witness ==
  /\ stats.vulnerable = 1 /\ stats.good = 1 /\ stats.unknown = 0
  /\ pc = "done"

\* C6: a target reached through an on-disk archive and k nested archives is
\* reported with the chain [resolved archive path, nested entry names from
\* the outermost to the innermost, target entry name], of length k + 2.
C6_AncestryChain ==
  \A i \in Reports :
    out[i].loc # <<>> =>
      /\ Texts(out[i].chain)
           = <<Resolve(out[i].path)>> \o NamesAlong(out[i].via[1], out[i].loc)
      /\ Len(out[i].chain) = (Len(out[i].loc) - 1) + 2

\* a target below two nested archives has been reported with a chain of
\* length 4: the archive's path, the two nested entry names, the target's
C6_Witness ==
  \E i \in Reports :
    /\ Len(out[i].loc) = 3 /\ Len(out[i].chain) = 4
    /\ out[i].chain[1].text = Resolve(out[i].path)
    /\ BaseName(out[i].chain[2].text) = N_LibWar
    /\ BaseName(out[i].chain[3].text) = N_LibWar
    /\ BaseName(out[i].chain[4].text) = N_JndiManager

\* C8: when main() goes on to the next candidate, and at the summary, no
\* handle opened for an earlier candidate is still open.
C8_HandlesReleased == pc \in {"start", "walk", "done"} => open = {}

\* C9: no chain is shared: the list of parents each suspended iter_jarfile
\* holds stays the chain of its own archive whatever check_vulnerable and the
\* descents do, and every report of an archive starts at the archive's path.
C9_ChainsNotShared ==
  /\ \A i \in 1..Len(jstack) :
       heap[jstack[i].parents]
         = <<Resolve(cand.path)>> \o NamesAlong(cand.node, jstack[i].loc)
  /\ \A i \in Reports :
       out[i].loc # <<>> =>
         /\ out[i].chain[1].text = Resolve(out[i].path)
         /\ Len(out[i].chain) = Len(out[i].loc) + 1

\* two targets and a nested archive of one archive have been reported, the
\* generator of the archive still suspended
C9_Witness ==
  /\ pc = "jar"
  /\ Len(jstack) = 1
  /\ \E i, j \in Reports :
       /\ i < j
       /\ out[i].path = cand.path /\ out[j].path = cand.path
       /\ Len(out[i].loc) = 2 /\ out[j].loc = <<2>>

\* the candidate a report line names: the head of the chain it prints, which
\* is the path p of a file on disk and p.resolve() of an archive
Named(line) ==
  LET h == line.chain[1].text IN IF Head(h) = CwdName THEN Tail(h) ELSE h

\* the position of path p in the order the traversal yielded the candidates
YieldIndex(p) ==
  IF p \in YieldedPaths
  THEN CHOOSE k \in 1..Len(yielded) : yielded[k].path = p
  ELSE 0

Marks(j) == { i \in 1..j : out[i].type = "scanning" }

\* the traversal has advanced past the k-th candidate it yielded
Passed(k) == k < Len(yielded) \/ pc \in {"walk", "start", "done"}

\* every classification candidate c gives rise to has its line in the output:
\* the one of a readable target file, the ones of the readable target entries
\* of an archive that has no failing part
LinesOut(c) ==
  /\ (IsTargetName(BaseName(c.path)) /\ c.node.fault = "none") =>
       \E i \in Reports : Texts(out[i].chain) = <<c.path>>
  /\ (HasJarSuffix(BaseName(c.path)) /\ FaultCount(c.node) = 0) =>
       \A loc \in ReadableEntries(c.node, <<>>) :
         \E i \in Reports :
           Texts(out[i].chain) = <<Resolve(c.path)>> \o NamesAlong(c.node, loc)

C10_Now ==
  /\ Cardinality(Reports) = stats.vulnerable + stats.good + stats.unknown
  /\ \A k \in 1..Len(yielded) : Passed(k) => LinesOut(yielded[k])
  /\ \A i \in 1..Len(out) :
       /\ out[i].type = "scanning" => out[i].root = Cardinality(Marks(i))
       /\ out[i].type = "report" =>
            /\ Cardinality(Marks(i)) >= 1
            /\ Head(Named(out[i])) = ArgDir(Cardinality(Marks(i)))
            /\ YieldIndex(Named(out[i])) >= 1
            /\ \A j \in Reports :
                 j < i => YieldIndex(Named(out[j])) <= YieldIndex(Named(out[i]))
       /\ out[i].type = "summary" =>
            /\ pc = "done"
            /\ Cardinality(Marks(i)) = Len(roots)
            /\ \A j \in 1..Len(out) : j # i =>
                 /\ out[j].type # "summary"
                 /\ j > i => out[j].type = "count"
  /\ pc = "done" => \E i \in 1..Len(out) : out[i].type = "summary"

C10_Step ==
  LET n == stats.vulnerable + stats.good + stats.unknown
      m == stats'.vulnerable + stats'.good + stats'.unknown
      new == { i \in Len(out) + 1..Len(out') : out'[i].type = "report" }
  IN  /\ Len(out') >= Len(out)
      /\ SubSeq(out', 1, Len(out)) = out
      /\ m \in {n, n + 1}
      /\ Cardinality(new) = m - n
      /\ m # n =>
           /\ Len(out') = Len(out) + 1
           /\ yielded' = yielded /\ yielded # <<>>
           /\ rootIdx' = rootIdx
           /\ Named(out'[Len(out')]) = yielded[Len(yielded)].path

\* C10: reporting is streaming and one-to-one.  A step counts a classification
\* exactly when it appends one report line, and that line names the candidate
\* the traversal yielded last, so it is out before the traversal advances;
\* once the traversal is past a candidate every line it gives rise to is out.
\* A report line names a candidate below the root of the last start marker
\* before it, the lines follow the order of the traversal, they number
\* vulnerable + good + unknown in every state, and the summary comes once,
\* after the start marker of the last root.
C10_StreamingReports == []C10_Now /\ [][C10_Step]_vars

\* both of two root paths have a report after their own start marker, and
\* the summary is out
C10_Witness ==
  /\ pc = "done"
  /\ Len(roots) = 2
  /\ \E i, j \in Reports :
       /\ i < j
       /\ Cardinality(Marks(i)) = 1 /\ Head(Named(out[i])) = ArgDir(1)
       /\ Cardinality(Marks(j)) = 2 /\ Head(Named(out[j])) = ArgDir(2)
  /\ stats.vulnerable + stats.good + stats.unknown = 2

\* the handles a with statement opened are closed when it is left
WithHandlesClosed ==
  pc \in {"start", "walk", "done"} =>
    \A h \in open : h.kind \in {"jarfile", "nested", "zip"}

====
